---- MODULE Spec2Model ----
(***************************************************************************)
(* The image-generation relay (Express server, /api/* routes) and its      *)
(* provider fallback/retry loop.                                            *)
(*                                                                          *)
(* Strings that the code only compares or copies are TLA+ strings.         *)
(* Strings that the code searches with includes()/startsWith(), trims or   *)
(* truncates are sequences: an error message is a sequence of fragments    *)
(* (one fragment per searched phrase), a MIME type is <<type, "/", sub>>,  *)
(* a prompt and a text reply are sequences of characters.                  *)
(***************************************************************************)
EXTENDS Integers, Sequences, FiniteSets, TLC

VARIABLES
    apiKey,          \* process.env.GEMINI_API_KEY, read once at start-up
    stub,            \* the deterministic provider of SpecStub / SpecPair
    route,           \* per request: which route serves it
    pc,              \* per request: where its handler is suspended
    prompt,          \* per request: req.body.prompt
    idx,             \* per request: position in the model-name list
    retryCount,      \* per request: retryCount of the current candidate
    lastError,       \* per request: let lastError
    quotaError,      \* per request: let quotaError
    response,        \* per request: let response
    successfulModel, \* per request: let successfulModel
    sent,            \* per request: the HTTP responses written, in order
    caught,          \* per request: the error that reached the outer catch
    attempts,        \* per request: generateContent calls on the current candidate
    outbound,        \* per request: outbound provider calls issued so far
    modelGets,       \* per request: getGenerativeModel calls so far
    delays,          \* per request: retry delays waited so far
    lastNonQuota,    \* per request: last error thrown that is not a quota error
    client,          \* the form client: its page and its submit handler
    awaited          \* per request: the settled value held across a second await

vars == <<apiKey, stub, route, pc, prompt, idx, retryCount, lastError, quotaError,
          response, successfulModel, sent, caught, attempts, outbound, modelGets,
          delays, lastNonQuota, client, awaited>>

Requests == {"r1", "r2"}

(***************************************************************************)
(* Bounds                                                                   *)
(***************************************************************************)
MaxParts == 2        \* content parts in a provider response
MaxOver == 2         \* characters of provider text beyond the truncation limit
MaxAttempts == 4     \* generateContent calls on one candidate (cap for results
                     \* that carry no response object, which repeat the call)

(***************************************************************************)
(* Program constants                                                        *)
(***************************************************************************)
\* faulty variant: one retry too many
MoreRetries == 2 + 1

maxRetries == 2
TextLimit == 500
PreviewLen == 10

ModelNames ==
    << "gemini-2.5-flash-image-preview", "gemini-2.0-flash-exp",
       "gemini-2.5-flash-image", "gemini-1.5-flash", "gemini-1.5-pro",
       "gemini-pro" >>

TestKeyModelNames ==
    << "gemini-2.5-flash-image-preview", "gemini", "gemini-pro", "gemini-1.0-pro",
       "gemini-1.5-pro", "gemini-1.5-flash", "gemini-2.0-flash-exp" >>

ListedModelNames ==
    << "gemini-2.0-flash-exp", "gemini-1.5-flash", "gemini-1.5-pro", "gemini-pro",
       "gemini-1.0-pro", "gemini-1.5-flash-latest", "gemini-1.5-pro-latest" >>

(***************************************************************************)
(* Values                                                                   *)
(***************************************************************************)
Min(a, b) == IF a <= b THEN a ELSE b

\* An Error object: status 0 stands for "no status property".
\* errorDetails is the provider's detail array (empty when absent).
MkError(st, msg, det) == [status |-> st, message |-> msg, errorDetails |-> det]

\* null for lastError / quotaError
NoError == MkError(-1, <<>>, <<>>)

\* String.prototype.includes on a message, fragment by fragment
Includes(msg, needle) == \E i \in 1..Len(msg) : msg[i] = needle

\* faulty variant: no truncation
TakeAll(s, n) == s

\* String.prototype.substring(0, n)
Substring0(s, n) == SubSeq(s, 1, Min(n, Len(s)))

\* null / undefined for response
NoResponse ==
    [present |-> FALSE, candidates |-> <<>>,
     text |-> [throws |-> FALSE, value |-> <<>>, error |-> NoError]]

\* nothing is held across a second await
NothingAwaited == [kind |-> "none"]

\* WhiteSpace and LineTerminator of ECMAScript; a character without an escape
\* in a string here is written by its code point
Whitespace ==
    { "\t", "\n", "U+000B", "\f", "\r", " ", "U+00A0", "U+1680", "U+2000", "U+2001",
      "U+2002", "U+2003", "U+2004", "U+2005", "U+2006", "U+2007", "U+2008",
      "U+2009", "U+200A", "U+2028", "U+2029", "U+202F", "U+205F", "U+3000",
      "U+FEFF" }

\* String.prototype.trim
RECURSIVE TrimStart(_)
TrimStart(s) ==
    IF s # <<>> /\ Head(s) \in Whitespace THEN TrimStart(Tail(s)) ELSE s

RECURSIVE TrimEnd(_)
TrimEnd(s) ==
    IF s # <<>> /\ s[Len(s)] \in Whitespace
    THEN TrimEnd(SubSeq(s, 1, Len(s) - 1)) ELSE s

Trim(s) == TrimEnd(TrimStart(s))

(***************************************************************************)
(* Process-wide state                                                       *)
(***************************************************************************)
\* faulty variant: the credential guard is left out
NeverNotConfigured == FALSE

\* !!apiKey: unset and empty are both falsy
KeyLoaded == apiKey # <<>>

\* genAI = apiKey ? new GoogleGenerativeAI(apiKey) : null
GenAIPresent == KeyLoaded

\* !genAI || !apiKey
NotConfigured == ~GenAIPresent \/ ~KeyLoaded

(***************************************************************************)
(* HTTP responses                                                           *)
(***************************************************************************)
Reply(st, body) == [status |-> st, body |-> body]

\* what a try block ends with: a response written, or an exception
Completed(reply) == [threw |-> FALSE, error |-> NoError, replies |-> <<reply>>]
Thrown(e) == [threw |-> TRUE, error |-> e, replies |-> <<>>]

(***************************************************************************)
(* POST /api/generate: error classification                                *)
(***************************************************************************)
\* faulty variant: a 404 is retried like a quota error
RetryAlsoNotFound(e) ==
    \/ e.status \in {429, 404}
    \/ Includes(e.message, "quota")
    \/ Includes(e.message, "Quota")

\* the quota test of lines 230 and 339
IsQuotaError(e) ==
    \/ e.status = 429
    \/ Includes(e.message, "quota")
    \/ Includes(e.message, "Quota")

IsNotFoundError(e) ==
    \/ e.status = 404
    \/ Includes(e.message, "not found")
    \/ Includes(e.message, "Not Found")

IsAuthError(e) == e.status = 401 \/ Includes(e.message, "API key")

\* error.errorDetails?.find(d => d['@type']?.includes('RetryInfo'))?.retryDelay || '16'
RetryAfterOf(e) ==
    LET hits == {i \in 1..Len(e.errorDetails) :
                    Includes(e.errorDetails[i].type, "RetryInfo")}
        first == CHOOSE i \in hits : \A j \in hits : i <= j
    IN  IF hits = {} \/ e.errorDetails[first].retryDelay = ""
        THEN "16"
        ELSE e.errorDetails[first].retryDelay

\* faulty variant: the quota test comes before the not-found test
CatchQuotaFirst(e) ==
    IF e.status = 429 \/ Includes(e.message, "quota") \/ Includes(e.message, "Quota") THEN
        Reply(429, [error |-> "API quota exceeded",
                    message |-> "You have exceeded your current quota. Please wait a moment and try again.",
                    retryAfter |-> <<RetryAfterOf(e), " seconds">>,
                    details |-> e.message])
    ELSE IF e.status = 404 \/ Includes(e.message, "not found") \/ Includes(e.message, "Not Found") THEN
        Reply(404, [error |-> "Model not found",
                    message |-> "The requested Gemini model is not available. Tried multiple models but none were found.",
                    suggestion |-> "Please check your API key permissions and available models. Visit /api/models for debugging info.",
                    details |-> e.message])
    ELSE IF e.status = 401 \/ Includes(e.message, "API key") THEN
        Reply(401, [error |-> "Invalid API key",
                    message |-> "Please check your GEMINI_API_KEY environment variable."])
    ELSE
        Reply(500, [error |-> "Failed to generate image", message |-> e.message])

\* the outer catch block
CatchGenerate(e) ==
    IF IsNotFoundError(e) THEN
        Reply(404, [error |-> "Model not found",
                    message |-> "The requested Gemini model is not available. Tried multiple models but none were found.",
                    suggestion |-> "Please check your API key permissions and available models. Visit /api/models for debugging info.",
                    details |-> e.message])
    ELSE IF IsQuotaError(e) THEN
        Reply(429, [error |-> "API quota exceeded",
                    message |-> "You have exceeded your current quota. Please wait a moment and try again.",
                    retryAfter |-> <<RetryAfterOf(e), " seconds">>,
                    details |-> e.message])
    ELSE IF IsAuthError(e) THEN
        Reply(401, [error |-> "Invalid API key",
                    message |-> "Please check your GEMINI_API_KEY environment variable."])
    ELSE
        Reply(500, [error |-> "Failed to generate image", message |-> e.message])

(***************************************************************************)
(* POST /api/generate: request validation                                  *)
(***************************************************************************)
\* !prompt
PromptFalsy(p) == p.kind = "undefined" \/ (p.kind = "string" /\ p.chars = <<>>)

\* faulty variant: the prompt is tested without trim()
PromptRejectedNoTrim(p) == PromptFalsy(p)

\* !prompt || prompt.trim().length === 0, for a string or absent prompt
PromptRejected(p) == PromptFalsy(p) \/ Len(Trim(p.chars)) = 0

\* prompt.trim on a truthy value that is no string
TrimTypeError == MkError(0, <<"prompt.trim is not a function">>, <<>>)

(***************************************************************************)
(* POST /api/generate: reading the provider response                       *)
(***************************************************************************)
NoModelError ==
    MkError(0, <<"No available model found. Please check your ", "API key",
                 " and available models.">>, <<>>)

NoCandidatesError == MkError(0, <<"No response from Gemini API">>, <<>>)

\* candidate.content undefined: content.parts throws
NoContentError ==
    MkError(0, <<"Cannot read properties of undefined (reading 'parts')">>, <<>>)

\* part.inlineData && part.inlineData.mimeType && mimeType.startsWith('image/')
IsImagePart(part) ==
    /\ part.inline
    /\ part.mimeType # <<>>
    /\ Len(part.mimeType) >= 2
    /\ part.mimeType[1] = "image"
    /\ part.mimeType[2] = "/"

\* the for loop over parts: the data of the first image part, "" when none
ImageDataOf(parts) ==
    LET hits == {i \in 1..Len(parts) : IsImagePart(parts[i])}
        first == CHOOSE i \in hits : \A j \in hits : i <= j
    IN  IF hits = {} THEN "" ELSE parts[first].data

\* parts.find(p => p.inlineData?.mimeType)?.inlineData?.mimeType || 'image/png'
MimeTypeOf(parts) ==
    LET hits == {i \in 1..Len(parts) : parts[i].inline /\ parts[i].mimeType # <<>>}
        first == CHOOSE i \in hits : \A j \in hits : i <= j
    IN  IF hits = {} THEN <<"image", "/", "png">> ELSE parts[first].mimeType

\* `data:${mimeType};base64,${imageData}`
DataUri(mime, data) == <<"data:">> \o mime \o <<";base64,", data>>

\* lines 281-323, given a response object
ReadResponse(resp, p) ==
    IF resp.candidates = <<>> THEN Thrown(NoCandidatesError)
    ELSE IF ~resp.candidates[1].hasContent THEN Thrown(NoContentError)
    ELSE
        LET parts == resp.candidates[1].parts
            imageData == ImageDataOf(parts)
        IN  IF imageData = "" THEN
                IF resp.text.throws THEN Thrown(resp.text.error)
                ELSE Completed(Reply(501,
                        [error |-> "Model does not support direct image generation",
                         message |-> "The selected Gemini model returned text instead of an image. Gemini Flash 2.5 (NanoBanana) may require a different API endpoint or method for image generation, or may not be available on your current plan.",
                         response |-> Substring0(resp.text.value, TextLimit),
                         suggestion |-> "Please check if Gemini Flash 2.5 has image generation capabilities on your API plan, or consider using a dedicated image generation API."]))
            ELSE Completed(Reply(200,
                        [success |-> TRUE,
                         image |-> DataUri(MimeTypeOf(parts), imageData),
                         prompt |-> p.chars]))

\* faulty variant: the first quota error wins over the last error
SurfacedQuotaFirst(le, qe) ==
    IF qe # NoError THEN qe
    ELSE IF le # NoError THEN le
    ELSE NoModelError

\* lines 272-279: what is thrown when the loop ended without a response
SurfacedError(le, qe) ==
    IF qe # NoError /\ le = NoError THEN qe
    ELSE IF le # NoError THEN le
    ELSE NoModelError

\* lines 272-323: the rest of the try block once the candidate loop is over
AfterLoop(le, qe, resp, p) ==
    IF ~resp.present THEN Thrown(SurfacedError(le, qe))
    ELSE ReadResponse(resp, p)

\* faulty variant: no outer catch, a thrown error leaves the handler
OutcomeNoCatch(out) == [replies |-> out.replies, caught |-> out.error]

\* the try block's end together with the outer catch
Outcome(out) ==
    [replies |-> IF out.threw THEN <<CatchGenerate(out.error)>> ELSE out.replies,
     caught |-> out.error]

(***************************************************************************)
(* Inputs: request bodies and provider behaviour                           *)
(***************************************************************************)
StringPrompt(chars) == [kind |-> "string", chars |-> chars]
NoPrompt == [kind |-> "undefined", chars |-> <<>>]
ObjectPrompt == [kind |-> "object", chars |-> <<>>]

Prompts ==
    { NoPrompt, ObjectPrompt,
      StringPrompt(<<>>), StringPrompt(<<" ">>), StringPrompt(<<"\t", " ">>),
      StringPrompt(<<"\n">>), StringPrompt(<<"\r", "\n">>),
      StringPrompt(<<" ", "\n", "\t">>), StringPrompt(<<"U+00A0", "\f", "U+2003">>),
      StringPrompt(<<"a">>), StringPrompt(<<" ", "a", " ", "b", " ">>) }

\* every way to be rejected, and one prompt that is accepted
PromptsSmall == {p \in Prompts : p.kind # "string" \/ Len(p.chars) # 1 \/ PromptRejected(p)}

ApiKeys == { <<>>, <<"A", "I", "z", "a", "S", "y", "0", "1", "2", "3", "4", "5">> }

MsgPlain == <<"Internal error encountered">>
MsgQuota == <<"You exceeded your current ", "quota", ", please check your plan">>
MsgQuotaCap == <<"Quota", " exceeded for metric">>
MsgNotFound == <<"models/x is ", "not found", " for API version v1beta">>
MsgApiKey == <<"API key", " not valid. Please pass a valid API key.">>

ErrStatuses == {0, 400, 401, 404, 429}
ErrMessages == {MsgPlain, MsgQuota, MsgQuotaCap, MsgNotFound, MsgApiKey}

RetryInfo(delay) ==
    [type |-> <<"type.googleapis.com/google.rpc.", "RetryInfo">>, retryDelay |-> delay]
HelpDetail ==
    [type |-> <<"type.googleapis.com/google.rpc.", "Help">>, retryDelay |-> ""]
ErrDetails == { <<>>, <<HelpDetail, RetryInfo("30s")>>, <<RetryInfo("")>> }

\* every error shape the provider SDK can throw
ErrorsAll == {MkError(st, msg, det) : st \in ErrStatuses, msg \in ErrMessages,
                                       det \in ErrDetails}

\* one error per class of the candidate loop
ErrorsSmall ==
    { MkError(429, MsgPlain, <<>>), MkError(0, MsgQuota, <<>>),
      MkError(404, MsgNotFound, <<>>), MkError(400, MsgPlain, <<>>),
      MkError(0, MsgPlain, <<>>) }

TextPart == [inline |-> FALSE, mimeType |-> <<>>, data |-> ""]
InlinePart(mime, data) == [inline |-> TRUE, mimeType |-> mime, data |-> data]

PartKinds ==
    { TextPart,
      InlinePart(<<"image", "/", "png">>, "AAAA"),
      InlinePart(<<"image", "/", "jpeg">>, "BBBB"),
      InlinePart(<<"audio", "/", "wav">>, "CCCC"),
      InlinePart(<<"image", "/", "png">>, "") }

PartLists == UNION {[1..n -> PartKinds] : n \in 0..MaxParts}

TextChars == <<"a", "b", "c">>
TextOf(n) == [i \in 1..n |-> TextChars[(i % 3) + 1]]
TextLens == {0, 1, TextLimit} \cup (TextLimit + 1 .. TextLimit + MaxOver)

\* response.text() of the SDK throws when the reply was blocked
TextBlockedError ==
    MkError(0, <<"Text not available. Response was blocked due to SAFETY">>, <<>>)

Texts ==
    {[throws |-> FALSE, value |-> TextOf(n), error |-> NoError] : n \in TextLens}
    \cup {[throws |-> TRUE, value |-> <<>>, error |-> TextBlockedError]}

Content(parts) == [hasContent |-> TRUE, parts |-> parts]
NoContent == [hasContent |-> FALSE, parts |-> <<>>]

CandidateLists == {<<>>, <<NoContent>>} \cup {<<Content(pl)>> : pl \in PartLists}

MkResponse(cands, text) == [present |-> TRUE, candidates |-> cands, text |-> text]

ResponsesAll == {MkResponse(c, t) : c \in CandidateLists, t \in Texts}

ImageResponse ==
    MkResponse(<<Content(<<InlinePart(<<"image", "/", "png">>, "AAAA")>>)>>,
               [throws |-> FALSE, value |-> <<>>, error |-> NoError])
TextResponse ==
    MkResponse(<<Content(<<TextPart>>)>>,
               [throws |-> FALSE, value |-> TextOf(1), error |-> NoError])
ResponsesSmall == {ImageResponse, TextResponse, MkResponse(<<>>, TextResponse.text)}

\* what one generateContent call settles with
Threw(e) == [kind |-> "error", error |-> e, response |-> NoResponse]
Returned(resp) == [kind |-> "result", error |-> NoError, response |-> resp]

OutcomesSmall ==
    {Threw(e) : e \in ErrorsSmall} \cup {Returned(r) : r \in ResponsesSmall}
    \cup {Returned(NoResponse)}

(***************************************************************************)
(* Form client (public/app.js)                                             *)
(*                                                                          *)
(* A text shown on the page is a sequence of fragments, like an error      *)
(* message; <<>> is the empty string and also an absent (undefined) field. *)
(* client.pending is the last settlement of fetch(), client.settled names  *)
(* the way the last run of the submit handler ended.                        *)
(***************************************************************************)
\* data.image as the handler tells its shapes apart
NoImage == [kind |-> "absent", text |-> <<>>]
StringImage(t) == [kind |-> "string", text |-> t]
UrlImage(t) == [kind |-> "url", text |-> t]
DataImage(t) == [kind |-> "data", text |-> t]
BareObjectImage == [kind |-> "object", text |-> <<>>]

\* the parsed JSON body, by the fields the handler or the contract reads
MkData(err, msg, image, p) ==
    [error |-> err, message |-> msg, image |-> image, prompt |-> p]

\* what fetch() settles with: a rejection, or a Response whose json() may reject
FetchRejected(msg) ==
    [kind |-> "rejected", ok |-> FALSE, parses |-> FALSE, error |-> msg,
     data |-> MkData(<<>>, <<>>, NoImage, <<>>)]
HttpResponse(ok, data) ==
    [kind |-> "response", ok |-> ok, parses |-> TRUE, error |-> <<>>, data |-> data]
Unparsable(ok, msg) ==
    [kind |-> "response", ok |-> ok, parses |-> FALSE, error |-> msg,
     data |-> MkData(<<>>, <<>>, NoImage, <<>>)]

\* the message field of a relay reply as text: the generic 500 copies the
\* provider's message (fragments already), every other reply has a literal
MessageOf(reply) ==
    IF "message" \notin DOMAIN reply.body THEN <<>>
    ELSE IF reply.status = 500 /\ reply.body.error = "Failed to generate image"
         THEN reply.body.message
    ELSE <<reply.body.message>>

\* res.status(s).json(body) on the relay, response.ok and response.json() here
FromRelay(reply) ==
    HttpResponse(reply.status \in 200..299,
        MkData(IF "error" \in DOMAIN reply.body THEN <<reply.body.error>> ELSE <<>>,
               MessageOf(reply),
               IF "image" \in DOMAIN reply.body THEN StringImage(reply.body.image)
               ELSE NoImage,
               IF "prompt" \in DOMAIN reply.body THEN reply.body.prompt ELSE <<>>))

\* showError(message)
ShowError(c, message) ==
    [c EXCEPT !.errorText = message, !.errorDisplay = "block"]

\* throw new Error(data.error || 'Failed to generate image')
NotOkError(data) ==
    IF data.error # <<>> THEN data.error ELSE <<"Failed to generate image">>

\* the catch block
CatchSubmit(c, message) ==
    ShowError(c, IF message # <<>> THEN message
                 ELSE <<"An error occurred while generating the image">>)

\* the if / else if chain that sets generatedImage.src
ImageSrc(c, image) ==
    IF image.kind = "string" THEN image.text
    ELSE IF image.kind = "url" THEN image.text
    ELSE IF image.kind = "data" THEN <<"data:image/png;base64,">> \o image.text
    ELSE c.imageSrc

\* lines 45-56: a truthy data.image is displayed
ShowImage(c, data) ==
    [c EXCEPT !.imageSrc = ImageSrc(c, data.image),
              !.promptText = IF data.prompt # <<>> THEN data.prompt ELSE c.prompt,
              !.resultDisplay = "block"]

\* lines 38-63 once response.json() has resolved with data
Render(c, ok, data) ==
    IF ~ok THEN CatchSubmit(c, NotOkError(data))
    ELSE IF data.image.kind # "absent" THEN ShowImage(c, data)
    ELSE CatchSubmit(c, <<"No image data received">>)

\* faulty variant: the button is reset on the success path only
KeepLoading(c) == [c EXCEPT !.pc = "idle"]

\* the finally block, and the handler's end
Restore(c) ==
    [c EXCEPT !.disabled = FALSE, !.btnText = "inline", !.btnLoader = "none",
              !.pc = "idle"]

\* the page as loaded: nothing shown, the button enabled
InitClient ==
    [pc |-> "idle", prompt |-> <<>>, pending |-> FetchRejected(<<>>),
     disabled |-> FALSE, btnText |-> "inline", btnLoader |-> "none",
     resultDisplay |-> "none", errorDisplay |-> "none",
     errorText |-> <<>>, imageSrc |-> <<>>, promptText |-> <<>>,
     settled |-> "none"]

(***************************************************************************)
(* Initial state                                                            *)
(***************************************************************************)
InitRequests ==
    /\ route = [r \in Requests |-> "none"]
    /\ pc = [r \in Requests |-> "idle"]
    /\ prompt = [r \in Requests |-> NoPrompt]
    /\ idx = [r \in Requests |-> 0]
    /\ retryCount = [r \in Requests |-> 0]
    /\ lastError = [r \in Requests |-> NoError]
    /\ quotaError = [r \in Requests |-> NoError]
    /\ response = [r \in Requests |-> NoResponse]
    /\ successfulModel = [r \in Requests |-> ""]
    /\ sent = [r \in Requests |-> <<>>]
    /\ caught = [r \in Requests |-> NoError]
    /\ attempts = [r \in Requests |-> 0]
    /\ outbound = [r \in Requests |-> 0]
    /\ modelGets = [r \in Requests |-> 0]
    /\ delays = [r \in Requests |-> 0]
    /\ lastNonQuota = [r \in Requests |-> NoError]
    /\ client = InitClient
    /\ awaited = [r \in Requests |-> NothingAwaited]

Init ==
    /\ apiKey \in ApiKeys
    /\ stub = [i \in 1..Len(ModelNames) |-> Returned(NoResponse)]
    /\ InitRequests

(***************************************************************************)
(* POST /api/generate                                                       *)
(***************************************************************************)
\* faulty variant: the loop's variables are declared once, at module level
SharedScope(r) == "r1"

\* lastError, response, successfulModel, quotaError and retryCount are declared
\* with let inside the handler: every invocation reads and writes its own
Scope(r) == r

\* the handler ends: the try block's result goes out, through the catch if thrown
EndGenerate(r, out) ==
    /\ sent' = [sent EXCEPT ![r] = @ \o Outcome(out).replies]
    /\ caught' = [caught EXCEPT ![r] = Outcome(out).caught]
    /\ pc' = [pc EXCEPT ![r] = "done"]

\* getGenerativeModel + generateContent on candidate i: the handler suspends
IssueCall(r, i, n) ==
    /\ idx' = [idx EXCEPT ![r] = i]
    /\ attempts' = [attempts EXCEPT ![r] = n]
    /\ outbound' = [outbound EXCEPT ![r] = @ + 1]
    /\ modelGets' = [modelGets EXCEPT ![r] = @ + 1]
    /\ pc' = [pc EXCEPT ![r] = "calling"]

\* lines 170-219: from the request's arrival to the first await
ReceiveGenerate(r, p) ==
    /\ pc[r] = "idle"
    /\ route' = [route EXCEPT ![r] = "generate"]
    /\ prompt' = [prompt EXCEPT ![r] = p]
    /\ UNCHANGED <<awaited, client, apiKey, stub, lastError, quotaError, response, successfulModel,
                   delays, lastNonQuota, retryCount>>
    /\ IF p.kind = "object" THEN
            /\ EndGenerate(r, Thrown(TrimTypeError))
            /\ UNCHANGED <<idx, attempts, outbound, modelGets>>
       ELSE IF PromptRejected(p) THEN
            /\ EndGenerate(r, Completed(Reply(400, [error |-> "Prompt is required"])))
            /\ UNCHANGED <<idx, attempts, outbound, modelGets>>
       ELSE IF NotConfigured THEN
            /\ EndGenerate(r, Completed(Reply(500,
                    [error |-> "Gemini API key not configured. Please set GEMINI_API_KEY environment variable."])))
            /\ UNCHANGED <<idx, attempts, outbound, modelGets>>
       ELSE
            /\ IssueCall(r, 1, 1)
            /\ UNCHANGED <<sent, caught>>

\* faulty variant: the candidate after the failed one is passed over
SkipCandidate(r) ==
    IF ~response'[Scope(r)].present /\ idx[r] + 1 < Len(ModelNames) THEN
        /\ IssueCall(r, idx[r] + 2, 1)
        /\ retryCount' = [retryCount EXCEPT ![Scope(r)] = 0]
        /\ UNCHANGED <<sent, caught>>
    ELSE
        /\ EndGenerate(r, AfterLoop(lastError'[Scope(r)], quotaError'[Scope(r)],
                                    response'[Scope(r)], prompt[r]))
        /\ UNCHANGED <<idx, attempts, outbound, modelGets, retryCount>>

\* lines 266-270 after a break out of the while loop: the for loop ends on a
\* response or after the last candidate, and moves to the next candidate otherwise
NextCandidate(r) ==
    IF ~response'[Scope(r)].present /\ idx[r] < Len(ModelNames) THEN
        /\ IssueCall(r, idx[r] + 1, 1)
        /\ retryCount' = [retryCount EXCEPT ![Scope(r)] = 0]
        /\ UNCHANGED <<sent, caught>>
    ELSE
        /\ EndGenerate(r, AfterLoop(lastError'[Scope(r)], quotaError'[Scope(r)],
                                    response'[Scope(r)], prompt[r]))
        /\ UNCHANGED <<idx, attempts, outbound, modelGets, retryCount>>

\* lines 219-263 and what follows without suspending: generateContent settles with o
GenerateSettle(r, o) ==
    /\ pc[r] = "calling"
    /\ route[r] = "generate"
    /\ UNCHANGED <<awaited, client, apiKey, stub, route, prompt, delays>>
    /\ IF o.kind = "result" /\ o.response.present THEN
            \* a response object: record the model, leave both loops
            /\ response' = [response EXCEPT ![Scope(r)] = o.response]
            /\ successfulModel' = [successfulModel EXCEPT ![Scope(r)] = ModelNames[idx[r]]]
            /\ UNCHANGED <<idx, attempts, outbound, modelGets, retryCount, lastError,
                           quotaError, lastNonQuota>>
            /\ EndGenerate(r, AfterLoop(lastError'[Scope(r)], quotaError'[Scope(r)],
                                        response'[Scope(r)], prompt[r]))
       ELSE IF o.kind = "result" THEN
            \* no response and no exception: the while loop repeats the call
            /\ attempts[r] < MaxAttempts
            /\ response' = [response EXCEPT ![Scope(r)] = o.response]
            /\ IssueCall(r, idx[r], attempts[r] + 1)
            /\ UNCHANGED <<retryCount, lastError, quotaError, successfulModel, sent,
                           caught, lastNonQuota>>
       ELSE IF IsQuotaError(o.error) THEN
            /\ quotaError' = [quotaError EXCEPT ![Scope(r)] =
                                IF @ = NoError THEN o.error ELSE @]
            /\ UNCHANGED <<response, successfulModel, lastNonQuota>>
            /\ IF retryCount[Scope(r)] < maxRetries THEN
                    \* await the retry delay
                    /\ pc' = [pc EXCEPT ![r] = "delaying"]
                    /\ UNCHANGED <<idx, attempts, outbound, modelGets, retryCount,
                                   lastError, sent, caught>>
               ELSE
                    /\ lastError' = [lastError EXCEPT ![Scope(r)] = o.error]
                    /\ NextCandidate(r)
       ELSE
            \* lines 248-262: not found, bad request (status 400) and every other
            \* error do the same: remember the error, leave the retry loop
            /\ lastError' = [lastError EXCEPT ![Scope(r)] = o.error]
            /\ lastNonQuota' = [lastNonQuota EXCEPT ![r] = o.error]
            /\ UNCHANGED <<response, successfulModel, quotaError>>
            /\ NextCandidate(r)

\* lines 237-239 and the next iteration's call: the retry delay elapses
DelayDone(r) ==
    /\ pc[r] = "delaying"
    /\ retryCount' = [retryCount EXCEPT ![Scope(r)] = @ + 1]
    /\ delays' = [delays EXCEPT ![r] = @ + 1]
    /\ IssueCall(r, idx[r], attempts[r] + 1)
    /\ UNCHANGED <<awaited, client, apiKey, stub, route, prompt, lastError, quotaError, response,
                   successfulModel, sent, caught, lastNonQuota>>

(***************************************************************************)
(* GET /api/list-models                                                     *)
(***************************************************************************)
\* what fetch settles with, and what response.json() of its Response does
FetchOk(listed, models) ==
    [kind |-> "ok", listed |-> listed, models |-> models, message |-> <<>>]
FetchNotOk(msg) == [kind |-> "notok", listed |-> FALSE, models |-> <<>>, message |-> msg]
FetchThrows(msg) == [kind |-> "throws", listed |-> FALSE, models |-> <<>>, message |-> msg]
FetchUnparsable(msg) ==
    [kind |-> "unparsable", listed |-> FALSE, models |-> <<>>, message |-> msg]

FetchOutcomes ==
    { FetchOk(FALSE, <<>>), FetchOk(TRUE, <<>>),
      FetchOk(TRUE, <<"models/gemini-pro", "models/gemini-1.5-flash">>),
      FetchNotOk(<<>>), FetchNotOk(MsgApiKey), FetchThrows(<<"fetch failed">>),
      FetchUnparsable(<<"Unexpected token < in JSON at position 0">>) }

NotConfiguredReply == Reply(500, [error |-> "Gemini API key not configured",
                                  keyLoaded |-> KeyLoaded])

ListModelsFailed(msg) ==
    Reply(500, [error |-> "Failed to list models", message |-> msg,
                keyLoaded |-> KeyLoaded])

\* lines 44-62
ListModelsReply(f) ==
    IF f.kind \in {"throws", "unparsable"} THEN ListModelsFailed(f.message)
    ELSE IF f.kind = "notok" THEN
        ListModelsFailed(IF f.message # <<>> THEN f.message
                         ELSE <<"Failed to list models">>)
    ELSE Reply(200, [success |-> TRUE, models |-> f.models,
                     totalModels |-> Len(f.models)])

\* lines 34-44: to the first await
ReceiveListModels(r) ==
    /\ pc[r] = "idle"
    /\ route' = [route EXCEPT ![r] = "list-models"]
    /\ IF NotConfigured THEN
            /\ sent' = [sent EXCEPT ![r] = Append(@, NotConfiguredReply)]
            /\ pc' = [pc EXCEPT ![r] = "done"]
            /\ UNCHANGED outbound
       ELSE
            /\ outbound' = [outbound EXCEPT ![r] = @ + 1]
            /\ pc' = [pc EXCEPT ![r] = "fetching"]
            /\ UNCHANGED sent
    /\ UNCHANGED <<awaited, client, apiKey, stub, prompt, idx, retryCount, lastError, quotaError,
                   response, successfulModel, caught, attempts, modelGets, delays,
                   lastNonQuota>>

\* line 44: fetch settles; a rejection is answered by the catch block, a
\* Response is read with response.json(), the second await
ListModelsSettle(r, f) ==
    /\ pc[r] = "fetching"
    /\ IF f.kind = "throws" THEN
            /\ sent' = [sent EXCEPT ![r] = Append(@, ListModelsReply(f))]
            /\ pc' = [pc EXCEPT ![r] = "done"]
            /\ UNCHANGED awaited
       ELSE
            /\ awaited' = [awaited EXCEPT ![r] = f]
            /\ pc' = [pc EXCEPT ![r] = "parsing"]
            /\ UNCHANGED sent
    /\ UNCHANGED <<client, apiKey, stub, route, prompt, idx, retryCount, lastError,
                   quotaError, response, successfulModel, caught, attempts,
                   outbound, modelGets, delays, lastNonQuota>>

\* lines 45-62: response.json() settles
ListModelsParsed(r) ==
    /\ pc[r] = "parsing"
    /\ sent' = [sent EXCEPT ![r] = Append(@, ListModelsReply(awaited[r]))]
    /\ pc' = [pc EXCEPT ![r] = "done"]
    /\ UNCHANGED <<awaited, client, apiKey, stub, route, prompt, idx, retryCount,
                   lastError, quotaError, response, successfulModel, caught, attempts,
                   outbound, modelGets, delays, lastNonQuota>>

(***************************************************************************)
(* GET /api/test-key                                                        *)
(***************************************************************************)
TestKeyNotConfiguredReply ==
    Reply(500, [error |-> "Gemini API key not configured", keyLoaded |-> KeyLoaded,
                keyLength |-> Len(apiKey)])

\* reading .text of an undefined response
NoTextError ==
    MkError(0, <<"Cannot read properties of undefined (reading 'text')">>, <<>>)

\* lines 116-125
TestKeyFailed(e) ==
    Reply(500, [error |-> "API key test failed", message |-> e.message,
                status |-> e.status,
                details |-> [list |-> e.errorDetails,
                             text |-> IF e.errorDetails = <<>>
                                      THEN "No additional details" ELSE ""],
                keyLoaded |-> KeyLoaded,
                suggestion |-> "Try visiting /api/list-models to see available models"])

\* lines 98-105
TestKeyWorks(name, text) ==
    Reply(200, [success |-> TRUE, message |-> "API key is working!",
                workingModel |-> name, testResponse |-> text, keyLoaded |-> TRUE,
                keyPreview |-> Substring0(apiKey, PreviewLen) \o <<"...">>])

\* lines 94-96: how one probe ends inside the inner try
ProbeError(o) ==
    IF o.kind = "error" THEN o.error
    ELSE IF ~o.response.present THEN NoTextError
    ELSE IF o.response.text.throws THEN o.response.text.error
    ELSE NoError

\* lines 66-94: to the first await
ReceiveTestKey(r) ==
    /\ pc[r] = "idle"
    /\ route' = [route EXCEPT ![r] = "test-key"]
    /\ IF NotConfigured THEN
            /\ sent' = [sent EXCEPT ![r] = Append(@, TestKeyNotConfiguredReply)]
            /\ pc' = [pc EXCEPT ![r] = "done"]
            /\ UNCHANGED <<idx, attempts, outbound, modelGets>>
       ELSE
            /\ IssueCall(r, 1, 1)
            /\ UNCHANGED sent
    /\ UNCHANGED <<awaited, client, apiKey, stub, prompt, retryCount, lastError, quotaError, response,
                   successfulModel, caught, delays, lastNonQuota>>

\* lines 95-125: the probe's inner try from response.text() on, or its catch
TestKeyContinue(r, o) ==
    IF ProbeError(o) = NoError THEN
        /\ sent' = [sent EXCEPT ![r] =
                      Append(@, TestKeyWorks(TestKeyModelNames[idx[r]],
                                             o.response.text.value))]
        /\ pc' = [pc EXCEPT ![r] = "done"]
        /\ UNCHANGED <<idx, attempts, outbound, modelGets, lastError, caught>>
    ELSE
        /\ lastError' = [lastError EXCEPT ![Scope(r)] = ProbeError(o)]
        /\ IF idx[r] < Len(TestKeyModelNames) THEN
                /\ IssueCall(r, idx[r] + 1, 1)
                /\ UNCHANGED <<sent, caught>>
           ELSE
                /\ sent' = [sent EXCEPT ![r] = Append(@, TestKeyFailed(ProbeError(o)))]
                /\ caught' = [caught EXCEPT ![r] = ProbeError(o)]
                /\ pc' = [pc EXCEPT ![r] = "done"]
                /\ UNCHANGED <<idx, attempts, outbound, modelGets>>

\* line 94: generateContent settles; a rejection goes to the inner catch, a
\* result is read with await result.response, the second await
TestKeySettle(r, o) ==
    /\ pc[r] = "calling"
    /\ route[r] = "test-key"
    /\ UNCHANGED <<client, apiKey, stub, route, prompt, retryCount, quotaError, response,
                   successfulModel, delays, lastNonQuota>>
    /\ IF o.kind = "error" THEN
            /\ TestKeyContinue(r, o)
            /\ UNCHANGED awaited
       ELSE
            /\ awaited' = [awaited EXCEPT ![r] = o]
            /\ pc' = [pc EXCEPT ![r] = "reading"]
            /\ UNCHANGED <<idx, attempts, outbound, modelGets, lastError, caught, sent>>

\* lines 95-125: await result.response settles
TestKeyRead(r) ==
    /\ pc[r] = "reading"
    /\ TestKeyContinue(r, awaited[r])
    /\ UNCHANGED <<awaited, client, apiKey, stub, route, prompt, retryCount, quotaError,
                   response, successfulModel, delays, lastNonQuota>>

(***************************************************************************)
(* GET /api/models                                                          *)
(***************************************************************************)
ModelsNotConfiguredReply == Reply(500, [error |-> "Gemini API key not configured"])

\* lines 148-163
ModelsReply ==
    Reply(200, [message |-> "Test models in /api/generate endpoint",
                modelsToTry |-> ListedModelNames,
                availableModels |->
                    [i \in 1..Len(ListedModelNames) |->
                        [name |-> ListedModelNames[i], status |-> "testing"]]])

\* lines 129-167: the handler never suspends
ReceiveModels(r) ==
    /\ pc[r] = "idle"
    /\ route' = [route EXCEPT ![r] = "models"]
    /\ pc' = [pc EXCEPT ![r] = "done"]
    /\ IF NotConfigured THEN
            /\ sent' = [sent EXCEPT ![r] = Append(@, ModelsNotConfiguredReply)]
            /\ UNCHANGED modelGets
       ELSE
            /\ sent' = [sent EXCEPT ![r] = Append(@, ModelsReply)]
            /\ modelGets' = [modelGets EXCEPT ![r] = @ + Len(ListedModelNames)]
    /\ UNCHANGED <<awaited, client, apiKey, stub, prompt, idx, retryCount, lastError, quotaError,
                   response, successfulModel, caught, attempts, outbound, delays,
                   lastNonQuota>>

(***************************************************************************)
(* One request, a provider free to answer each call differently            *)
(***************************************************************************)
Next ==
    \/ \E p \in PromptsSmall : ReceiveGenerate("r1", p)
    \/ \E o \in OutcomesSmall : GenerateSettle("r1", o)
    \/ DelayDone("r1")
    \/ ReceiveListModels("r1")
    \/ \E f \in FetchOutcomes : ListModelsSettle("r1", f)
    \/ ListModelsParsed("r1")
    \/ ReceiveTestKey("r1")
    \/ \E o \in OutcomesSmall : TestKeySettle("r1", o)
    \/ TestKeyRead("r1")
    \/ ReceiveModels("r1")

Spec == Init /\ [][Next]_vars

(***************************************************************************)
(* One request against a deterministic provider stub: each candidate       *)
(* answers every call the same way                                         *)
(***************************************************************************)
OutcomesAll ==
    {Threw(e) : e \in ErrorsAll} \cup {Returned(r) : r \in ResponsesAll}
    \cup {Returned(NoResponse)}

Quota429 == MkError(429, MsgPlain, <<>>)
NotFound404 == MkError(404, MsgNotFound, <<>>)

StubOutcomes ==
    {Threw(Quota429), Threw(NotFound404), Returned(ImageResponse), Returned(TextResponse)}

Candidates == 1..Len(ModelNames)

UniformStubs == {[i \in Candidates |-> o] : o \in OutcomesAll}
MixedStubs == [Candidates -> StubOutcomes]
Stubs == UniformStubs \cup MixedStubs

InitStub ==
    /\ apiKey \in ApiKeys
    /\ stub \in Stubs
    /\ InitRequests

NextStub ==
    \/ \E p \in Prompts : ReceiveGenerate("r1", p)
    \/ GenerateSettle("r1", stub[idx["r1"]])
    \/ DelayDone("r1")

SpecStub == InitStub /\ [][NextStub]_vars

(***************************************************************************)
(* Two requests served concurrently against a deterministic provider stub  *)
(***************************************************************************)
PairOutcomes == {Threw(Quota429), Threw(NotFound404), Returned(ImageResponse)}

InitPair ==
    /\ apiKey \in ApiKeys
    /\ stub \in [Candidates -> PairOutcomes]
    /\ InitRequests

NextPair ==
    \/ \E r \in Requests, p \in PromptsSmall : ReceiveGenerate(r, p)
    \/ \E r \in Requests : GenerateSettle(r, stub[idx[r]])
    \/ \E r \in Requests : DelayDone(r)

SpecPair == InitPair /\ [][NextPair]_vars

(***************************************************************************)
(* The form client's handlers                                              *)
(***************************************************************************)
serverVars == <<apiKey, stub, route, pc, prompt, idx, retryCount, lastError,
                quotaError, response, successfulModel, sent, caught, attempts,
                outbound, modelGets, delays, lastNonQuota, awaited>>

\* promptInput.value
InputValues == {p.chars : p \in {q \in Prompts : q.kind = "string"}}

\* every reply of POST /api/generate to a prompt that the client sends
RelayErrors == ErrorsSmall \cup {MkError(401, MsgApiKey, <<>>), NoModelError,
                                 NoCandidatesError}
RelayReplies(p) ==
    {CatchGenerate(e) : e \in RelayErrors}
    \cup {Reply(400, [error |-> "Prompt is required"]),
          Reply(500, [error |-> "Gemini API key not configured. Please set GEMINI_API_KEY environment variable."])}
    \cup {ReadResponse(resp, StringPrompt(p)).replies[1] :
              resp \in {ImageResponse, TextResponse}}

\* bodies of other shapes that the handler accepts, and failed exchanges
OtherSettlements ==
    { HttpResponse(TRUE, MkData(<<>>, <<>>, UrlImage(<<"https://cdn/i.png">>), <<>>)),
      HttpResponse(TRUE, MkData(<<>>, <<>>, DataImage(<<"AAAA">>), <<"a">>)),
      HttpResponse(TRUE, MkData(<<>>, <<>>, BareObjectImage, <<>>)),
      HttpResponse(TRUE, MkData(<<>>, <<>>, NoImage, <<>>)),
      HttpResponse(FALSE, MkData(<<>>, <<>>, NoImage, <<>>)),
      HttpResponse(FALSE, MkData(<<>>, <<"Bad Gateway">>, NoImage, <<>>)),
      Unparsable(FALSE, <<"Unexpected token < in JSON at position 0">>),
      Unparsable(TRUE, <<"Unexpected end of JSON input">>),
      FetchRejected(<<"Failed to fetch">>),
      FetchRejected(<<>>) }

Settlements(p) == {FromRelay(reply) : reply \in RelayReplies(p)} \cup OtherSettlements

\* every settlement, whatever prompt was sent
AllSettlements == UNION {Settlements(v) : v \in {Trim(u) : u \in InputValues}}

\* a form whose submit button is disabled is not submitted by the browser
CanSubmit == client.pc = "idle" /\ ~client.disabled

\* lines 10-36: the submit listener up to await fetch()
Submit(value) ==
    /\ CanSubmit
    /\ client' =
         IF Trim(value) = <<>> THEN
             [ShowError(client, <<"Please enter a prompt">>) EXCEPT !.settled = "empty"]
         ELSE
             [client EXCEPT !.prompt = Trim(value),
                            !.resultDisplay = "none", !.errorDisplay = "none",
                            !.disabled = TRUE, !.btnText = "none",
                            !.btnLoader = "inline",
                            !.pc = "fetching", !.settled = "none"]
    /\ UNCHANGED serverVars

\* lines 30-38: fetch() settles; a rejection goes to catch and finally
FetchSettle(w) ==
    /\ client.pc = "fetching"
    /\ w \in Settlements(client.prompt)
    /\ client' =
         IF w.kind = "rejected" THEN
             [Restore(CatchSubmit(client, w.error)) EXCEPT !.pending = w,
                                                           !.settled = "rejected"]
         ELSE [client EXCEPT !.pc = "parsing", !.pending = w]
    /\ UNCHANGED serverVars

\* how a run that parsed its body ended
SettledAs(ok, data) ==
    IF ~ok THEN "notok" ELSE IF data.image.kind # "absent" THEN "image" ELSE "noimage"

\* lines 38-69: response.json() settles; the rest of try, catch, finally
JsonSettle ==
    /\ client.pc = "parsing"
    /\ client' =
         IF ~client.pending.parses THEN
             [Restore(CatchSubmit(client, client.pending.error))
                 EXCEPT !.settled = "unparsable"]
         ELSE
             [Restore(Render(client, client.pending.ok, client.pending.data))
                 EXCEPT !.settled = SettledAs(client.pending.ok, client.pending.data)]
    /\ UNCHANGED serverVars

\* lines 72-74: the close button of the result panel
CloseClick ==
    /\ client.resultDisplay = "block"
    /\ client' = [client EXCEPT !.resultDisplay = "none"]
    /\ UNCHANGED serverVars

NextClient ==
    \/ \E value \in InputValues : Submit(value)
    \/ \E w \in AllSettlements : FetchSettle(w)
    \/ JsonSettle
    \/ CloseClick

InitClientOnly ==
    /\ apiKey \in {k \in ApiKeys : k # <<>>}
    /\ stub = [i \in 1..Len(ModelNames) |-> Returned(NoResponse)]
    /\ InitRequests

SpecClient == InitClientOnly /\ [][NextClient]_vars

(***************************************************************************)
(* Properties                                                               *)
(***************************************************************************)
Done(r) == pc[r] = "done"
Generate(r) == route[r] = "generate"
StatusOf(r) == sent[r][1].status
BodyOf(r) == sent[r][1].body

\* a prompt that is missing, empty or made of whitespace only
IsBlankPrompt(p) ==
    \/ p.kind = "undefined"
    \/ p.kind = "string" /\ \A i \in 1..Len(p.chars) : p.chars[i] \in Whitespace

Mentions(e, phrases) == \E j \in 1..Len(e.message) : e.message[j] \in phrases

\* the first content parts of a response, <<>> when it has none
PartsOf(resp) ==
    IF resp.candidates = <<>> \/ ~resp.candidates[1].hasContent THEN <<>>
    ELSE resp.candidates[1].parts

DeclaresImage(part) ==
    part.inline /\ Len(part.mimeType) >= 2 /\ part.mimeType[1] = "image"

ImageIndexes(resp) == {i \in 1..Len(PartsOf(resp)) : DeclaresImage(PartsOf(resp)[i])}

FirstImage(resp) ==
    PartsOf(resp)[CHOOSE i \in ImageIndexes(resp) : \A j \in ImageIndexes(resp) : i <= j]

\* C1: a generate request whose prompt is missing, empty or whitespace-only is
\* answered 400 at once, and neither getGenerativeModel nor generateContent is
\* called for it, with or without a configured credential.
C1_BlankPromptRejected ==
    \A r \in Requests :
        Generate(r) /\ IsBlankPrompt(prompt[r]) =>
            /\ Done(r)
            /\ Len(sent[r]) = 1
            /\ StatusOf(r) = 400
            /\ outbound[r] = 0
            /\ modelGets[r] = 0

C1_Witness ==
    /\ KeyLoaded
    /\ Generate("r1")
    /\ prompt["r1"] = StringPrompt(<<"\t", " ">>)
    /\ Done("r1")
    /\ StatusOf("r1") = 400

\* C2 as stated: without a credential every /api/* route answers 500 with
\* keyLoaded: false in the body and attempts no outbound provider call.
C2_EveryRoute500KeyLoaded ==
    ~KeyLoaded =>
        \A r \in Requests :
            Done(r) =>
                /\ StatusOf(r) = 500
                /\ "keyLoaded" \in DOMAIN BodyOf(r)
                /\ BodyOf(r).keyLoaded = FALSE
                /\ outbound[r] = 0

\* C2, amended: without a credential no route attempts a provider call;
\* list-models and test-key answer 500 with keyLoaded: false; models answers 500
\* and generate answers 500 unless the prompt is blank (then 400), and the
\* bodies of these two carry no keyLoaded field: the body is an error field
\* alone, except for a generate prompt that is no string, which is answered
\* by the catch block with an error and a message field.
C2_NoCredential ==
    ~KeyLoaded =>
        \A r \in Requests :
            /\ pc[r] \in {"idle", "done"}
            /\ outbound[r] = 0
            /\ modelGets[r] = 0
            /\ Done(r) =>
                /\ Len(sent[r]) = 1
                /\ StatusOf(r) =
                      IF Generate(r) /\ IsBlankPrompt(prompt[r]) THEN 400 ELSE 500
                /\ route[r] \in {"list-models", "test-key"} =>
                      /\ "keyLoaded" \in DOMAIN BodyOf(r)
                      /\ BodyOf(r).keyLoaded = FALSE
                /\ route[r] \in {"models", "generate"} =>
                      /\ "keyLoaded" \notin DOMAIN BodyOf(r)
                      /\ DOMAIN BodyOf(r) =
                            IF Generate(r) /\ prompt[r].kind = "object"
                            THEN {"error", "message"} ELSE {"error"}

C2_Witness ==
    /\ ~KeyLoaded
    /\ Generate("r1")
    /\ ~IsBlankPrompt(prompt["r1"])
    /\ Done("r1")
    /\ StatusOf("r1") = 500
    /\ DOMAIN BodyOf("r1") = {"error"}

\* C3 as stated: when the response obtained holds a part that declares an image
\* MIME type (and carries a payload), the answer is 200 with
\* image = data:{mime};base64,{payload}, mime and payload both of the first such
\* part, and the request's prompt, whatever the order of the parts.
C3_ImageFromFirstImagePart ==
    \A r \in Requests :
        /\ Generate(r) /\ Done(r)
        /\ response[r].present
        /\ ImageIndexes(response[r]) # {}
        /\ FirstImage(response[r]).data # ""
        => sent[r] =
            << Reply(200,
                 [success |-> TRUE,
                  image |-> <<"data:">> \o FirstImage(response[r]).mimeType
                            \o <<";base64,", FirstImage(response[r]).data>>,
                  prompt |-> prompt[r].chars]) >>

\* C4 as stated: a response without an image part is always answered 501 with
\* the provider's text cut to 500 characters, never with another status.
C4_NoImageAlways501 ==
    \A r \in Requests :
        /\ Generate(r) /\ Done(r)
        /\ response[r].present
        /\ ImageIndexes(response[r]) = {}
        => /\ StatusOf(r) = 501
           /\ Len(BodyOf(r).response) <= TextLimit

\* C4, amended: a response that has a first candidate with content, no image
\* part in it, and a readable text is answered 501 with the first
\* min(500, length) characters of that text; a response without candidates is
\* answered 500 ("No response from Gemini API").
C4_NoImage501 ==
    \A r \in Requests :
        /\ Generate(r) /\ Done(r)
        /\ response[r].present
        /\ ImageIndexes(response[r]) = {}
        => /\ Len(sent[r]) = 1
           /\ response[r].candidates = <<>> =>
                /\ StatusOf(r) = 500
                /\ BodyOf(r).message = <<"No response from Gemini API">>
           /\ /\ response[r].candidates # <<>>
              /\ response[r].candidates[1].hasContent
              /\ ~response[r].text.throws
              => LET text == response[r].text.value IN
                 /\ StatusOf(r) = 501
                 /\ Len(BodyOf(r).response) = Min(Len(text), TextLimit)
                 /\ \A i \in 1..Len(BodyOf(r).response) : BodyOf(r).response[i] = text[i]

C4_Witness ==
    /\ Generate("r1") /\ Done("r1")
    /\ response["r1"].present
    /\ ImageIndexes(response["r1"]) = {}
    /\ Len(response["r1"].text.value) > TextLimit
    /\ StatusOf("r1") = 501
    /\ Len(BodyOf("r1").response) = TextLimit

\* candidate i of the stub fails every call with a quota error
StubFailsQuota(i) ==
    /\ stub[i].kind = "error"
    /\ stub[i].error.status = 429 \/ Mentions(stub[i].error, {"quota", "Quota"})

\* candidate i of the stub returns a response with an image in it
StubGivesImage(i) ==
    /\ stub[i].kind = "result"
    /\ stub[i].response.present
    /\ ImageIndexes(stub[i].response) # {}
    /\ FirstImage(stub[i].response).data # ""

\* the candidate loop of request r has started
InLoop(r) == Generate(r) /\ outbound[r] > 0

\* C5: quota errors on every call to the first two candidates and an image
\* from the third: the answer is 200, the successful model is the third
\* candidate, the first two candidates get at most 3 calls each, the third
\* exactly one, and the fourth to sixth none.
C5_QuotaThenThirdSucceeds ==
    \A r \in Requests :
        InLoop(r) /\ StubFailsQuota(1) /\ StubFailsQuota(2) /\ StubGivesImage(3) =>
            /\ idx[r] <= 3
            /\ attempts[r] <= 3
            /\ outbound[r] <= 3 * (idx[r] - 1) + attempts[r]
            /\ idx[r] = 3 => attempts[r] = 1
            /\ Done(r) =>
                /\ idx[r] = 3
                /\ Len(sent[r]) = 1
                /\ StatusOf(r) = 200
                /\ successfulModel[r] = ModelNames[3]

C5_Witness ==
    /\ StubFailsQuota(1) /\ StubFailsQuota(2) /\ StubGivesImage(3)
    /\ InLoop("r1") /\ Done("r1")
    /\ StatusOf("r1") = 200
    /\ successfulModel["r1"] = "gemini-2.5-flash-image"
    /\ outbound["r1"] = 7

CheckAvailability ==
    "Please check your API key permissions and available models. Visit /api/models for debugging info."

\* what C6 promises of a request whose candidates all fail with a 404
OnceEachNoRetry(r) ==
    /\ attempts[r] = 1
    /\ delays[r] = 0
    /\ pc[r] # "delaying"
    /\ outbound[r] = idx[r]
    /\ Done(r) =>
        /\ idx[r] = Len(ModelNames)
        /\ Len(sent[r]) = 1
        /\ StatusOf(r) = 404
        /\ BodyOf(r).suggestion = CheckAvailability

\* C6 as stated: every candidate fails with a 404: the answer is 404 with the
\* suggestion to check model availability, each of the six candidates is called
\* exactly once in list order, and no retry delay is waited.
C6_All404OnceEach ==
    \A r \in Requests :
        /\ InLoop(r)
        /\ \A i \in Candidates : stub[i].kind = "error" /\ stub[i].error.status = 404
        => OnceEachNoRetry(r)

\* C6, amended: the same, for 404 errors whose message does not mention quota
\* (a 404 whose message mentions quota is retried like a quota error).
C6_All404NoQuotaOnceEach ==
    \A r \in Requests :
        /\ InLoop(r)
        /\ \A i \in Candidates :
              /\ stub[i].kind = "error"
              /\ stub[i].error.status = 404
              /\ ~Mentions(stub[i].error, {"quota", "Quota"})
        => OnceEachNoRetry(r)

C6_Witness ==
    /\ \A i \in Candidates : stub[i] = Threw(NotFound404)
    /\ InLoop("r1") /\ Done("r1")
    /\ StatusOf("r1") = 404
    /\ outbound["r1"] = 6
    /\ delays["r1"] = 0

\* C7 as stated: when no candidate produced a response, the error surfaced is
\* the quota error only if quota errors were the only errors seen, the last
\* non-quota error seen if there was any (whatever came after it), and the
\* generic "no model found" error if no error was recorded.
C7_SurfacedError ==
    \A r \in Requests :
        InLoop(r) /\ Done(r) /\ ~response[r].present =>
            /\ quotaError[r] # NoError /\ lastNonQuota[r] = NoError
                  => caught[r] = quotaError[r]
            /\ lastNonQuota[r] # NoError => caught[r] = lastNonQuota[r]
            /\ quotaError[r] = NoError /\ lastNonQuota[r] = NoError
                  => caught[r] = NoModelError

\* the status the catch block gives an error: first match wins
StatusFor(e) ==
    IF e.status = 404 \/ Mentions(e, {"not found", "Not Found"}) THEN 404
    ELSE IF e.status = 429 \/ Mentions(e, {"quota", "Quota"}) THEN 429
    ELSE IF e.status = 401 \/ Mentions(e, {"API key"}) THEN 401
    ELSE 500

MinOf(S) == CHOOSE i \in S : \A j \in S : i <= j

\* the retry hint of a 429 answer: the delay of the first RetryInfo detail,
\* 16 when there is none
HintFor(e) ==
    LET infos == {i \in 1..Len(e.errorDetails) :
                     e.errorDetails[i].type[Len(e.errorDetails[i].type)] = "RetryInfo"}
        delay == IF infos = {} THEN "" ELSE e.errorDetails[MinOf(infos)].retryDelay
    IN  <<IF delay = "" THEN "16" ELSE delay, " seconds">>

\* C8 as stated: the status follows the surfaced error's provider status: 404
\* gives 404, 429 gives 429, 401 gives 401, whatever the message says.
C8_StatusFollowsProviderStatus ==
    \A r \in Requests :
        Generate(r) /\ Done(r) /\ caught[r] # NoError =>
            /\ caught[r].status = 404 => StatusOf(r) = 404
            /\ caught[r].status = 429 => StatusOf(r) = 429
            /\ caught[r].status = 401 => StatusOf(r) = 401

\* C8, amended: the first rule that matches decides, in this order: status 404
\* or a message mentioning "not found" gives 404; status 429 or a message
\* mentioning "quota" gives 429, with the retry hint of the error's RetryInfo
\* detail or 16 seconds; status 401 or a message mentioning "API key" gives 401;
\* anything else gives 500.
C8_StatusByFirstMatch ==
    \A r \in Requests :
        Generate(r) /\ Done(r) /\ caught[r] # NoError =>
            /\ Len(sent[r]) = 1
            /\ StatusOf(r) = StatusFor(caught[r])
            /\ StatusOf(r) = 429 => BodyOf(r).retryAfter = HintFor(caught[r])
            /\ StatusOf(r) = 500 => BodyOf(r).message = caught[r].message

C8_Witness ==
    /\ Generate("r1") /\ Done("r1")
    /\ caught["r1"].status = 429
    /\ Mentions(caught["r1"], {"not found"})
    /\ StatusOf("r1") = 404

\* everything the handler serving request r has written
Locals(r) ==
    <<pc[r], idx[r], retryCount[r], lastError[r], quotaError[r], response[r],
      successfulModel[r], sent[r], caught[r], attempts[r], outbound[r],
      modelGets[r], delays[r], lastNonQuota[r]>>

\* two requests for the same prompt stand at the same point of the handler
SamePoint(r, q) ==
    /\ Generate(r) /\ Generate(q)
    /\ prompt[r] = prompt[q]
    /\ pc[r] = pc[q]
    /\ idx[r] = idx[q]
    /\ attempts[r] = attempts[q]

\* what one request that entered the candidate loop is answered when it is
\* served alone by the stub: the candidates in order, from candidate i on, with
\* le the last error and qe the first quota error so far
RECURSIVE AloneFrom(_, _, _, _)
AloneFrom(i, le, qe, p) ==
    IF i > Len(ModelNames) THEN Outcome(AfterLoop(le, qe, NoResponse, p)).replies
    ELSE IF stub[i].kind = "result" THEN
        IF stub[i].response.present
        THEN Outcome(AfterLoop(le, qe, stub[i].response, p)).replies
        ELSE <<>>
    ELSE IF stub[i].error.status = 429 \/ Mentions(stub[i].error, {"quota", "Quota"})
        THEN AloneFrom(i + 1, stub[i].error, IF qe = NoError THEN stub[i].error ELSE qe, p)
    ELSE AloneFrom(i + 1, stub[i].error, qe, p)

\* with the same prompt, requests end alike and pass through the same values,
\* however their steps interleave (one after the other included), and each
\* ends as a request served alone does
SameOutcome ==
    \A r, q \in Requests :
        /\ SamePoint(r, q) => Locals(r) = Locals(q)
        /\ Generate(r) /\ Generate(q) /\ prompt[r] = prompt[q] /\ Done(r) /\ Done(q)
              => sent[r] = sent[q] /\ caught[r] = caught[q]
                 /\ successfulModel[r] = successfulModel[q]
        /\ InLoop(r) /\ Done(r) => sent[r] = AloneFrom(1, NoError, NoError, prompt[r])

\* a step taken for one request changes nothing another request holds
OwnWritesOnly ==
    \A r, q \in Requests : r # q /\ Locals(r)' # Locals(r) => Locals(q)' = Locals(q)

\* C9: against a deterministic provider, two generate requests with the same
\* prompt, served one after the other or interleaved, end with the same status
\* and outcome, and no step of one request touches what the other holds.
C9_RequestsIndependent == []SameOutcome /\ [][OwnWritesOnly]_vars

C9_Witness ==
    /\ Generate("r1") /\ Generate("r2")
    /\ prompt["r1"] = prompt["r2"]
    /\ Done("r1") /\ Done("r2")
    /\ lastNonQuota["r1"] # NoError
    /\ delays["r1"] > 0 /\ delays["r2"] > 0
    /\ StatusOf("r1") = 429 /\ StatusOf("r2") = 429

GenerateStatuses == {200, 400, 401, 404, 429, 500, 501}

\* C10: a generate request is answered at most once, with one of the statuses
\* 200, 400, 401, 404, 429, 500, 501; 200 goes out only when a provider call
\* returned a response with an image in it; and every error thrown on the way
\* is answered by the handler itself (a finished handler has answered).
C10_OneAnswer ==
    \A r \in Requests :
        Generate(r) =>
            /\ Len(sent[r]) <= 1
            /\ Done(r) <=> Len(sent[r]) = 1
            /\ \A i \in 1..Len(sent[r]) :
                /\ sent[r][i].status \in GenerateStatuses
                /\ sent[r][i].status = 200 =>
                      /\ outbound[r] >= 1
                      /\ response[r].present
                      /\ ImageIndexes(response[r]) # {}
                      /\ caught[r] = NoError
                /\ caught[r] # NoError => sent[r][i].status \notin {200, 400, 501}

C10_Witness ==
    /\ Generate("r1") /\ Done("r1")
    /\ caught["r1"] = MkError(0, MsgPlain, <<>>)
    /\ outbound["r1"] = Len(ModelNames)
    /\ sent["r1"] = <<Reply(500, [error |-> "Failed to generate image",
                                   message |-> MsgPlain])>>

(***************************************************************************)
(* Properties of the form client                                           *)
(***************************************************************************)
InFlight == client.pc \in {"fetching", "parsing"}
Loading == client.disabled /\ client.btnLoader = "inline" /\ client.btnText = "none"
Ready == ~client.disabled /\ client.btnLoader = "none" /\ client.btnText = "inline"

\* C11: while a submitted request is in flight the submit control is disabled
\* and the loader is shown; whenever no request is in flight, in particular
\* after any settlement (image, 2xx without image, non-2xx, network failure,
\* unparsable body), the control is enabled and the loader hidden.
C11_LoadingWhileInFlight ==
    /\ InFlight => Loading
    /\ ~InFlight => Ready
    /\ client.settled \in {"image", "noimage", "notok", "rejected", "unparsable"}
          => ~InFlight

C11_Witness ==
    /\ client.settled = "unparsable"
    /\ client.pending.ok
    /\ Ready
    /\ client.errorDisplay = "block"

\* C12 as stated: after a non-2xx response whose body has a message or an
\* error field, the error text on the page is the body's message field when
\* it has one, and its error field otherwise.
C12_ShowsMessageFirst ==
    LET data == client.pending.data
    IN  (client.settled = "notok" /\ (data.message # <<>> \/ data.error # <<>>)) =>
            /\ client.errorDisplay = "block"
            /\ client.errorText = IF data.message # <<>> THEN data.message
                                  ELSE data.error

(***************************************************************************)
(* Properties of the candidate loop, against the deterministic provider    *)
(***************************************************************************)
\* the next step issues a provider call to the candidate called last
CallsSameAgain(r) == outbound'[r] = outbound[r] + 1 /\ idx'[r] = idx[r]

\* the next step issues the first call to the following candidate
CallsNext(r) == outbound'[r] = outbound[r] + 1 /\ idx'[r] = idx[r] + 1

\* the call to the current candidate fails with a quota error
FailsWithQuota(r) ==
    /\ idx[r] \in Candidates
    /\ stub[idx[r]].kind = "error"
    /\ IsQuotaError(stub[idx[r]].error)

\* C13 as stated: a candidate is called at most 3 times and the request makes
\* at most 18 calls; a candidate is called again only after its preceding call
\* failed with a quota error and exactly one delay was waited; no delay is
\* waited before the next candidate's first call; a delay is waited only after
\* a quota error.
C13_RetryOnlyAfterQuota ==
    /\ [](/\ attempts["r1"] <= maxRetries + 1
          /\ outbound["r1"] <= (maxRetries + 1) * Len(ModelNames)
          /\ pc["r1"] = "delaying" => FailsWithQuota("r1"))
    /\ [][CallsSameAgain("r1") =>
            /\ FailsWithQuota("r1")
            /\ pc["r1"] = "delaying"
            /\ delays'["r1"] = delays["r1"] + 1]_vars
    /\ [][CallsNext("r1") => delays'["r1"] = delays["r1"]]_vars

(***************************************************************************)
(* Properties of the candidate loop, for any sequence of provider outcomes *)
(***************************************************************************)
\* a provider call or a retry delay of request r is outstanding
Awaiting(r) == pc[r] \in {"calling", "delaying"}

\* C14: the candidates are called in list order, none skipped, starting with
\* the first; a call is issued only in the step that ends the outstanding
\* call or delay, so at most one is outstanding; the next candidate is called
\* only when the call just ended threw and no call so far returned a response
\* object; once a response object is returned no further call is made and
\* the recorded model is the candidate of that call.
C14_InOrderOneAtATime ==
    /\ [](\A r \in Requests :
            Generate(r) =>
                /\ idx[r] \in 0..Len(ModelNames)
                /\ Awaiting(r) => (idx[r] \in Candidates /\ ~response[r].present)
                /\ response[r].present =>
                      (Done(r) /\ successfulModel[r] = ModelNames[idx[r]]))
    /\ [][\A r \in Requests : route'[r] = "generate" =>
            /\ idx'[r] \in {idx[r], idx[r] + 1}
            /\ outbound'[r] \in {outbound[r], outbound[r] + 1}
            /\ outbound'[r] # outbound[r] =>
                  /\ pc'[r] = "calling"
                  /\ pc[r] = "idle" <=> outbound[r] = 0
                  /\ outbound[r] = 0 => idx'[r] = 1
                  /\ outbound[r] > 0 => Awaiting(r)
            /\ idx'[r] # idx[r] => outbound'[r] = outbound[r] + 1
            /\ (outbound[r] > 0 /\ CallsNext(r)) =>
                  /\ pc[r] = "calling"
                  /\ lastError'[r] # NoError
                  /\ ~response'[r].present
            /\ response[r].present =>
                  /\ outbound'[r] = outbound[r]
                  /\ idx'[r] = idx[r]
                  /\ response'[r] = response[r]
                  /\ successfulModel'[r] = successfulModel[r]]_vars

C14_Witness ==
    /\ Generate("r1") /\ Done("r1")
    /\ response["r1"].present
    /\ successfulModel["r1"] = ModelNames[3]
    /\ outbound["r1"] = 5
    /\ delays["r1"] = 2
    /\ lastNonQuota["r1"] # NoError

\* provider calls that the loop can still make at most: the candidates left,
\* three calls each, and the retries left on the current candidate
Remaining(r) ==
    (Len(ModelNames) - idx[r]) * (maxRetries + 1) + (maxRetries - retryCount[r])

\* C15 as stated: whatever a provider call settles with, the loop makes
\* progress: every further provider call leaves fewer calls that can still be
\* made, so a request makes finitely many calls (at most three per candidate).
C15_EveryCallMakesProgress ==
    /\ [](\A r \in Requests :
            Generate(r) => outbound[r] <= Len(ModelNames) * (maxRetries + 1))
    /\ [][\A r \in Requests :
            (route'[r] = "generate" /\ outbound[r] > 0 /\ outbound'[r] > outbound[r])
                => Remaining(r)' < Remaining(r)]_vars

\* the candidate loop of request r has ended without a response
EndedWithoutResponse(r) == InLoop(r) /\ Done(r) /\ ~response[r].present

\* C16: when the loop ends without a response, the last candidate was the one
\* called last, lastError is the error its final call threw and that error is
\* what reaches the catch block, whatever quotaError holds; the combination
\* "no response, no lastError, quotaError set" does not occur at the loop's end.
C16_LastErrorSurfaced ==
    EndedWithoutResponse("r1") =>
        /\ idx["r1"] = Len(ModelNames)
        /\ stub[idx["r1"]].kind = "error"
        /\ lastError["r1"] = stub[idx["r1"]].error
        /\ lastError["r1"] # NoError
        /\ caught["r1"] = lastError["r1"]
        /\ ~(quotaError["r1"] # NoError /\ lastError["r1"] = NoError)

C16_Witness ==
    /\ EndedWithoutResponse("r1")
    /\ stub[1] = Threw(Quota429)
    /\ stub[Len(ModelNames)] = Threw(NotFound404)
    /\ quotaError["r1"] = Quota429
    /\ lastError["r1"] = NotFound404
    /\ caught["r1"] = NotFound404

====
